---- MODULE Spec2Model ----
(***************************************************************************)
(* Model of src/navigation/infer_page.py: the surrogate Reconstructor      *)
(* (XGBoost regressor + POD basis), generate_data, the config parser       *)
(* get_parameters_from_config and the application_page script.             *)
(*                                                                         *)
(* Numbers are integers (the arithmetic of the reconstruction is the same  *)
(* over the integers as over floats that stay exact).  numpy arrays keep   *)
(* their shape where the code depends on it (squeeze, len, slicing,        *)
(* broadcasting, dot).  A Python exception is a value with err # "none".   *)
(***************************************************************************)
EXTENDS Integers, Sequences, FiniteSets, TLC

\* ------------------------------------------------------------------ bounds
\* largest number of outputs of a regressor artifact
MaxCoefs == 3
\* largest number of rows (modes) of a basis artifact
MaxRows == 3
\* largest num_modes passed in a direct call of reconstruct_with_xgboost
MaxModes == 4
\* number of spatial points P of the template mesh
NumPoints == 2

\* ------------------------------------------------------- Python and numpy
Min(a, b) == IF a < b THEN a ELSE b

Max(a, b) == IF a > b THEN a ELSE b

\* s[:n] of a Python sequence / first axis of an array, negative n included
PySlice(s, n) ==
  LET stop == IF n < 0 THEN Max(Len(s) + n, 0) ELSE Min(n, Len(s))
  IN  SubSeq(s, 1, stop)

\* ndarray.squeeze(): every axis of length 1 is dropped
np_squeeze(a) ==
  [shape |-> SelectSeq(a.shape, LAMBDA d : d # 1), data |-> a.data]

\* len(ndarray): the length of the first axis; a 0-d array is unsized
py_len(a) ==
  IF a.shape = <<>> THEN [err |-> "TypeError", val |-> 0]
  ELSE [err |-> "none", val |-> a.shape[1]]

\* a * b of two 1-d arrays, with numpy's broadcasting of a length-1 axis
np_multiply(a, b) ==
  IF Len(a) = Len(b)
    THEN [err |-> "none", val |-> [i \in 1..Len(a) |-> a[i] * b[i]]]
  ELSE IF Len(a) = 1
    THEN [err |-> "none", val |-> [i \in 1..Len(b) |-> a[1] * b[i]]]
  ELSE IF Len(b) = 1
    THEN [err |-> "none", val |-> [i \in 1..Len(a) |-> a[i] * b[1]]]
  ELSE [err |-> "ValueError", val |-> <<>>]

\* a + b of two 1-d arrays, same broadcasting
np_add(a, b) ==
  IF Len(a) = Len(b)
    THEN [err |-> "none", val |-> [i \in 1..Len(a) |-> a[i] + b[i]]]
  ELSE IF Len(a) = 1
    THEN [err |-> "none", val |-> [i \in 1..Len(b) |-> a[1] + b[i]]]
  ELSE IF Len(b) = 1
    THEN [err |-> "none", val |-> [i \in 1..Len(a) |-> a[i] + b[1]]]
  ELSE [err |-> "ValueError", val |-> <<>>]

RECURSIVE DotColumn(_, _, _, _)
\* sum over the rows i = 1..k of rows[i][p] * w[i]
DotColumn(rows, w, p, k) ==
  IF k = 0 THEN 0 ELSE DotColumn(rows, w, p, k - 1) + rows[k][p] * w[k]

\* np.dot(m.T, w) for a 2-d array m of shape (Len(m.rows), m.cols) and 1-d w:
\* the shapes must agree exactly, there is no broadcasting in dot
np_dot_T(m, w) ==
  IF Len(m.rows) # Len(w) THEN [err |-> "ValueError", val |-> <<>>]
  ELSE [err |-> "none",
        val |-> [p \in 1..m.cols |-> DotColumn(m.rows, w, p, Len(w))]]

RECURSIVE SeqMax(_, _)
SeqMax(s, k) == IF k = 1 THEN s[1] ELSE Max(SeqMax(s, k - 1), s[k])

\* ndarray.max() / np.max of a non-empty 1-d array
np_max(s) == SeqMax(s, Len(s))

\* -------------------------------------------------------------- artifacts
\* The regression artifact (xgb_model.bin): a fitted booster, an opaque
\* function of the feature row with a fixed number nout of outputs.  A tree
\* ensemble is piecewise constant in its features; the model is one stump
\* with vector leaves, splitting on feature feat (0 is the time) at thr.
Leaf(kind, k) ==
  [i \in 1..k |-> IF kind = "up" THEN i + 1 ELSE 3 - 2 * i]

XgbFiles ==
  { [nout |-> k, feat |-> sp[1], thr |-> sp[2],
     left |-> Leaf(lr[1], k), right |-> Leaf(lr[2], k)] :
      k \in 1..MaxCoefs,
      sp \in {<<0, 60>>, <<1, 12>>},
      lr \in {<<"up", "up">>, <<"up", "down">>, <<"down", "up">>} }

\* The basis artifact (pod_weights_truncated.npz): the arrays "mean" (P,),
\* "pca_components" (R, P) and "pca_std" (R,) of one PCA.
BasisMean(kind) ==
  [p \in 1..NumPoints |-> IF kind = "canonical" THEN 0 ELSE 10 * p]

BasisRow(kind, i) ==
  [p \in 1..NumPoints |->
     IF kind = "general" THEN i * p - 2
     ELSE IF p = ((i - 1) % NumPoints) + 1 THEN 1 ELSE 0]

BasisStd(kind, r) ==
  [i \in 1..r |-> IF kind = "canonical" THEN 1 ELSE i + 1]

PodFiles ==
  { [mean |-> BasisMean(kind),
     pca_components |-> [cols |-> NumPoints,
                         rows |-> [i \in 1..r |-> BasisRow(kind, i)]],
     pca_std |-> BasisStd(kind, r)] :
      kind \in {"canonical", "mixed", "general"}, r \in 1..MaxRows }

\* the random placeholder datasets np.random.normal(size=(3, 3)) can give
DummyData == {0, 1}

\* ---------------------------------------------------------- Reconstructor
\* Booster.predict on a DMatrix of one row: shape (1,) for a single-output
\* model, (1, nout) for a multi-output one
predict(booster, row) ==
  LET leaf == IF row[booster.feat + 1] < booster.thr
                THEN booster.left ELSE booster.right
  IN  [shape |-> IF booster.nout = 1 THEN <<1>> ELSE <<1, booster.nout>>,
       data |-> leaf]

NoObject ==
  [xgb_model |-> [nout |-> 0, feat |-> 0, thr |-> 0,
                  left |-> <<>>, right |-> <<>>],
   sam_obj |-> [dataset |-> 0, std |-> <<>>],
   mean_dataset_columnvector |-> <<>>,
   pca_model_components |-> [cols |-> 0, rows |-> <<>>]]

\* A file on disk: ok says whether its loader can read it (it exists and
\* is well-formed), content what the loader then gets.
GoodFile(c) == [ok |-> TRUE, content |-> c]

BadXgbFile == [ok |-> FALSE, content |-> NoObject.xgb_model]

BadPodFile ==
  [ok |-> FALSE,
   content |-> [mean |-> <<>>, pca_components |-> [cols |-> 0, rows |-> <<>>],
                pca_std |-> <<>>]]

\* faulty variant: a file that cannot be read is passed over in silence
load_xgb_regressor_ignores(self, xgb_file) ==
  IF ~xgb_file.ok THEN [err |-> "none", self |-> self]
  ELSE [err |-> "none", self |-> [self EXCEPT !.xgb_model = xgb_file.content]]

\* Reconstructor._load_xgb_regressor: Booster.load_model raises on a file it
\* cannot read
load_xgb_regressor(self, xgb_file) ==
  IF ~xgb_file.ok THEN [err |-> "XGBoostError", self |-> self]
  ELSE [err |-> "none", self |-> [self EXCEPT !.xgb_model = xgb_file.content]]

\* the std a SAM object would carry had it been fitted on its own dataset
DummyStd(dataset) == <<dataset + 5>>

\* faulty variant: line 98 left out, the object keeps the std of its placeholder
load_pyssam_keeps_dummy_std(self, pod_file, dummy) ==
  IF ~pod_file.ok
    THEN [err |-> "OSError",
          self |-> [self EXCEPT
                      !.sam_obj = [dataset |-> dummy, std |-> <<>>]]]
  ELSE [err |-> "none",
        self |-> [self EXCEPT
          !.sam_obj = [dataset |-> dummy, std |-> DummyStd(dummy)],
          !.mean_dataset_columnvector = pod_file.content.mean,
          !.pca_model_components = pod_file.content.pca_components]]

\* Reconstructor._load_pyssam: a SAM object on a random placeholder dataset
\* (dummy), then the three arrays of the file; np.load raises on a file it
\* cannot read
load_pyssam(self, pod_file, dummy) ==
  IF ~pod_file.ok
    THEN [err |-> "OSError",
          self |-> [self EXCEPT
                      !.sam_obj = [dataset |-> dummy, std |-> <<>>]]]
  ELSE [err |-> "none",
        self |-> [self EXCEPT
          !.sam_obj = [dataset |-> dummy, std |-> pod_file.content.pca_std],
          !.mean_dataset_columnvector = pod_file.content.mean,
          !.pca_model_components = pod_file.content.pca_components]]

\* Reconstructor.__init__
Reconstructor(xgb_file, pod_file, dummy) ==
  LET x == load_xgb_regressor(NoObject, xgb_file)
  IN  IF x.err # "none" THEN x ELSE load_pyssam(x.self, pod_file, dummy)

\* pyssam's SAM.morph_model as called at lines 132-137:
\* mean + dot(components[:num_modes].T, parameters * self.std[:num_modes])
morph_model(sam_obj, mean, components, parameters, num_modes) ==
  LET pcs == [cols |-> components.cols,
              rows |-> PySlice(components.rows, num_modes)]
      weight == np_multiply(parameters, PySlice(sam_obj.std, num_modes))
  IN  IF weight.err # "none" THEN weight
      ELSE LET d == np_dot_T(pcs, weight.val)
           IN  IF d.err # "none" THEN d ELSE np_add(mean, d.val)

\* What a call leaves: err is the exception raised ("none": it returned),
\* field the returned array (reduction None), scalar the returned number (a
\* reduction supplied), num_modes the value of the local num_modes at exit.
Returned(field, reduction, nm) ==
  [err |-> "none", reduced |-> reduction # "None",
   field |-> IF reduction = "None" THEN field ELSE <<>>,
   scalar |-> IF reduction = "max" THEN np_max(field) ELSE 0,
   num_modes |-> nm]

Raised(e, nm) ==
  [err |-> e, reduced |-> FALSE, field |-> <<>>, scalar |-> 0,
   num_modes |-> nm]

\* faulty variant: line 130 left out, the requested count is used as it is
reconstruct_with_xgboost_no_clamp(self, t, param_list, reduction, num_modes) ==
  LET feat_mat == <<t>> \o param_list
      pod_coefs == np_squeeze(predict(self.xgb_model, feat_mat))
      n == py_len(pod_coefs)
  IN  IF n.err # "none" THEN Raised(n.err, num_modes)
      ELSE LET nm == num_modes
               recon_field ==
                 morph_model(self.sam_obj, self.mean_dataset_columnvector,
                             self.pca_model_components,
                             PySlice(pod_coefs.data, nm), nm)
           IN  IF recon_field.err # "none" THEN Raised(recon_field.err, nm)
               ELSE Returned(recon_field.val, reduction, nm)

\* faulty variant: the clamp of line 130 taken one too low
reconstruct_with_xgboost_clamp_low(self, t, param_list, reduction, num_modes) ==
  LET feat_mat == <<t>> \o param_list
      pod_coefs == np_squeeze(predict(self.xgb_model, feat_mat))
      n == py_len(pod_coefs)
  IN  IF n.err # "none" THEN Raised(n.err, num_modes)
      ELSE LET nm == Min(n.val - 1, num_modes)
               recon_field ==
                 morph_model(self.sam_obj, self.mean_dataset_columnvector,
                             self.pca_model_components,
                             PySlice(pod_coefs.data, nm), nm)
           IN  IF recon_field.err # "none" THEN Raised(recon_field.err, nm)
               ELSE Returned(recon_field.val, reduction, nm)

reconstruct_with_xgboost(self, t, param_list, reduction, num_modes) ==
  LET feat_mat == <<t>> \o param_list
      pod_coefs == np_squeeze(predict(self.xgb_model, feat_mat))
      n == py_len(pod_coefs)
  IN  IF n.err # "none" THEN Raised(n.err, num_modes)
      ELSE LET nm == Min(n.val, num_modes)
               recon_field ==
                 morph_model(self.sam_obj, self.mean_dataset_columnvector,
                             self.pca_model_components,
                             PySlice(pod_coefs.data, nm), nm)
           IN  IF recon_field.err # "none" THEN Raised(recon_field.err, nm)
               ELSE Returned(recon_field.val, reduction, nm)

\* ------------------------------------------------------ config parsing
\* largest number of apps of a config, of blocks of uncertain parameters of
\* an app, and of parameters of a block
MaxApps == 2
MaxBlocks == 2
MaxParams == 2

\* A number read from the config file is a Python int or float.
PyInt(v) == [kind |-> "int", val |-> v]

\* float(x)
py_float(x) == [kind |-> "float", val |-> x.val]

\* x + y of two Python numbers
py_plus(x, y) ==
  [kind |-> IF x.kind = "float" \/ y.kind = "float" THEN "float" ELSE "int",
   val |-> x.val + y.val]

\* The parameter at position j of block b of app a; its label and its
\* numbers are those of its position, other says its distribution is not
\* uniform.
ParamAt(a, b, j, other) ==
  [human_description |-> <<a, b, j>>,
   distribution |->
     [name |-> IF other THEN "normal" ELSE "uniform",
      loc |-> PyInt(10 * a + b),
      scale |-> IF j % 2 = 0 THEN py_float(PyInt(2 * j)) ELSE PyInt(2 * j)]]

\* the positions of the non-uniform parameters of a config: none, one or two
\* of the positions S
NonUniformSets(S) ==
  {{}} \cup {{x} : x \in S} \cup {{x, y} : x \in S, y \in S}

\* config["apps"], in iteration order: each app has a type and its
\* "uncertain-params", a mapping of mappings kept as a sequence of blocks
\* with at most maxApps apps
Configs(maxApps) ==
  UNION { UNION { UNION {
    { [a \in 1..n |->
         [type |-> types[a],
          uncertain_params |->
            [b \in 1..nb |->
               [j \in 1..np |-> ParamAt(a, b, j, <<a, b, j>> \in others)]]]] :
        others \in NonUniformSets((1..n) \X (1..nb) \X (1..np)) } :
      types \in [1..n -> {"moose", "json"}] } :
      nb \in 0..MaxBlocks, np \in 1..MaxParams } : n \in 1..maxApps }

NoLists ==
  [err |-> "none", name_list |-> <<>>, min_val_list |-> <<>>,
   max_val_list |-> <<>>]

\* faulty variant: a non-uniform parameter is skipped instead of refused
ParamStep_skips(st, prm) ==
  IF st.err # "none" THEN st
  ELSE IF prm.distribution.name # "uniform" THEN st
  ELSE [st EXCEPT
          !.name_list = Append(@, prm.human_description),
          !.min_val_list = Append(@, py_float(prm.distribution.loc)),
          !.max_val_list =
            Append(@, py_float(py_plus(prm.distribution.loc,
                                       prm.distribution.scale)))]

\* faulty variant: the upper bound taken as the scale alone
ParamStep_scale_only(st, prm) ==
  IF st.err # "none" THEN st
  ELSE IF prm.distribution.name # "uniform"
    THEN [st EXCEPT !.err = "NotImplementedError"]
  ELSE [st EXCEPT
          !.name_list = Append(@, prm.human_description),
          !.min_val_list = Append(@, py_float(prm.distribution.loc)),
          !.max_val_list = Append(@, py_float(prm.distribution.scale))]

\* the body of the innermost loop, lines 225-243; once an exception is
\* raised nothing more runs
ParamStep(st, prm) ==
  IF st.err # "none" THEN st
  ELSE IF prm.distribution.name # "uniform"
    THEN [st EXCEPT !.err = "NotImplementedError"]
  ELSE [st EXCEPT
          !.name_list = Append(@, prm.human_description),
          !.min_val_list = Append(@, py_float(prm.distribution.loc)),
          !.max_val_list =
            Append(@, py_float(py_plus(prm.distribution.loc,
                                       prm.distribution.scale)))]

RECURSIVE ParamLoop(_, _, _)
\* for param_i in uq_config[key_i], from position k on
ParamLoop(st, block, k) ==
  IF k > Len(block) THEN st
  ELSE ParamLoop(ParamStep(st, block[k]), block, k + 1)

RECURSIVE BlockLoop(_, _, _)
\* for key_i in uq_config, from position k on
BlockLoop(st, blocks, k) ==
  IF k > Len(blocks) THEN st
  ELSE BlockLoop(ParamLoop(st, blocks[k], 1), blocks, k + 1)

RECURSIVE AppLoop(_, _, _)
\* for fname in app_name_list, from position k on: only "moose" apps are read
AppLoop(st, apps, k) ==
  IF k > Len(apps) THEN st
  ELSE AppLoop(IF apps[k].type = "moose"
                 THEN BlockLoop(st, apps[k].uncertain_params, 1)
                 ELSE st,
               apps, k + 1)

\* the three lists returned, or the exception raised: a raise returns nothing
get_parameters_from_config(cfg) ==
  LET st == AppLoop(NoLists, cfg, 1)
  IN  IF st.err # "none" THEN [NoLists EXCEPT !.err = st.err] ELSE st

\* ------------------------------------------- direct calls (SpecRecon)
\* Two Reconstructor objects built from the same two artifact files, each
\* with its own random placeholder dataset; every request is put to both.
VARIABLES disk, recons, call, config, parsed

\* application_page: pc is the position of the script run, local_files
\* whether both artifacts are in tmp_data, num_modes and coefs_to_test the
\* slider values, recon_model, ti, out_temp and data_out the locals of
\* generate_data (ti the position in time_list), tab_data and field_vals
\* what it returned, rendered what the page has shown, error the exception
\* that ended the run, loads and recon_calls how often each artifact was
\* loaded and reconstruct_with_xgboost called.
VARIABLES pc, local_files, num_modes, coefs_to_test, recon_model, ti,
          out_temp, data_out, tab_data, field_vals, rendered, error,
          loads, recon_calls

reconVars == <<recons, call>>

pageVars ==
  <<pc, local_files, num_modes, coefs_to_test, recon_model, ti, out_temp,
    data_out, tab_data, field_vals, rendered, error, loads, recon_calls>>

NoError == [where |-> "none", exc |-> "none"]

\* no page is running
PageOff ==
  /\ pc = "off"
  /\ local_files = "present"
  /\ num_modes = 0
  /\ coefs_to_test = <<>>
  /\ recon_model = NoObject
  /\ ti = 0
  /\ out_temp = <<>>
  /\ data_out = <<>>
  /\ tab_data = <<>>
  /\ field_vals = <<>>
  /\ rendered = {}
  /\ error = NoError
  /\ loads = [xgb |-> 0, pod |-> 0]
  /\ recon_calls = 0

NoCall ==
  [done |-> FALSE, t |-> 0, param_list |-> <<>>, reduction |-> "None",
   num_modes |-> 0, out |-> <<Raised("none", 0), Raised("none", 0)>>]

Times == {5, 60}

ParamLists == {<<11>>, <<13>>}

Reductions == {"None", "max"}

InitRecon ==
  /\ disk \in [xgb : {GoodFile(b) : b \in XgbFiles},
               pod : {GoodFile(b) : b \in PodFiles}]
  /\ \E d1 \in DummyData, d2 \in DummyData :
       d1 <= d2 /\ recons = <<Reconstructor(disk.xgb, disk.pod, d1).self,
                  Reconstructor(disk.xgb, disk.pod, d2).self>>
  /\ call = NoCall
  /\ config = <<>>
  /\ parsed = [done |-> FALSE, result |-> NoLists]
  /\ PageOff

CallReconstruct ==
  \E t \in Times, pl \in ParamLists, red \in Reductions, nm \in 0..MaxModes :
    /\ call' = [done |-> TRUE, t |-> t, param_list |-> pl, reduction |-> red,
                num_modes |-> nm,
                out |-> [i \in 1..2 |->
                           reconstruct_with_xgboost(recons[i], t, pl, red, nm)]]
    /\ UNCHANGED <<disk, recons, config, parsed, pageVars>>

NextRecon == CallReconstruct

vars == <<disk, recons, call, config, parsed, pageVars>>

SpecRecon == InitRecon /\ [][NextRecon]_vars

\* ------------------------------------------------ claims on direct calls
\* the coefficients the regressor predicts for the recorded request
PredictedCoefs ==
  predict(recons[1].xgb_model, <<call.t>> \o call.param_list).data

RECURSIVE ExpansionAt(_, _, _, _, _)
\* sum over i = 1..k of coef[i] * scale[i] * rows[i][p]
ExpansionAt(coef, scale, rows, p, k) ==
  IF k = 0 THEN 0
  ELSE ExpansionAt(coef, scale, rows, p, k - 1)
         + coef[k] * scale[k] * rows[k][p]

\* C1: every call of reconstruct_with_xgboost, whatever num_modes is requested
\* and whatever vector the regressor predicts, ends without an error and has
\* used exactly min(requested, number of predicted coefficients) modes.
C1_ClampNeverErrors ==
  call.done =>
    \A i \in 1..2 :
      /\ call.out[i].err = "none"
      /\ call.out[i].num_modes = Min(call.num_modes, Len(PredictedCoefs))

\* C2: a call without reduction that returns, returns at every point p
\* mean[p] + sum_{i < effective} coefficient[i] * scale[i] * components[i][p]
\* over the first effective = min(requested, predicted) entries in stored
\* order; with 0 modes that is the mean vector; and with mean [0,0],
\* components [[1,0],[0,1]], scale [1,1] and predicted [2,3] it is [2,3]
\* for 2 modes.
C2_BasisExpansion ==
  (call.done /\ call.reduction = "None") =>
    \A i \in 1..2 :
      call.out[i].err = "none" =>
        LET self == recons[i]
            mean == self.mean_dataset_columnvector
            eff == Min(call.num_modes, Len(PredictedCoefs))
        IN  /\ ~call.out[i].reduced
            /\ call.out[i].num_modes = eff
            /\ eff <= Len(self.sam_obj.std)
            /\ eff <= Len(self.pca_model_components.rows)
            /\ call.out[i].field =
                 [p \in 1..Len(mean) |->
                    mean[p] + ExpansionAt(PredictedCoefs, self.sam_obj.std,
                                          self.pca_model_components.rows,
                                          p, eff)]
            /\ call.num_modes = 0 => call.out[i].field = mean
            /\ ( /\ mean = <<0, 0>>
                 /\ self.pca_model_components.rows = <<(<<1, 0>>), (<<0, 1>>)>>
                 /\ self.sam_obj.std = <<1, 1>>
                 /\ PredictedCoefs = <<2, 3>>
                 /\ call.num_modes = 2 )
               => call.out[i].field = <<2, 3>>

\* C2 witness: a returned field of two modes on a basis with a non-zero
\* mean, distinct scale values and dense component rows
C2_Witness ==
  /\ call.done /\ call.reduction = "None" /\ call.num_modes = 3
  /\ call.out[1].err = "none" /\ call.out[1].num_modes = 2
  /\ recons[1].sam_obj.std = <<2, 3>>
  /\ recons[1].mean_dataset_columnvector[1] = 10
  /\ call.out[1].field # recons[1].mean_dataset_columnvector

\* C7: the same request put to two reconstructors built from the same two
\* artifact files has the same outcome, whatever placeholder dataset each
\* was constructed with.
C7_Deterministic ==
  call.done => call.out[1] = call.out[2]

\* C7 witness: a field returned by two reconstructors whose placeholder
\* datasets differ
C7_Witness ==
  /\ call.done /\ call.out[1].err = "none" /\ call.num_modes >= 2
  /\ recons[1].sam_obj.dataset # recons[2].sam_obj.dataset
  /\ call.out[1].field # recons[1].mean_dataset_columnvector

\* what C8 says of the recorded call on reconstructor i: the effective mode
\* count is within the component rows and the scale vector, and as many
\* coefficients as component rows as scale values are combined
ModesWithinBasis(i) ==
  LET eff == call.out[i].num_modes
  IN  /\ eff <= Len(recons[i].pca_model_components.rows)
      /\ eff <= Len(recons[i].sam_obj.std)
      /\ Len(PySlice(PredictedCoefs, eff)) =
           Len(PySlice(recons[i].pca_model_components.rows, eff))
      /\ Len(PySlice(PredictedCoefs, eff)) =
           Len(PySlice(recons[i].sam_obj.std, eff))

\* C8 as stated: in every call that reaches the basis expansion, for every
\* regressor output length and basis size, the effective mode count exceeds
\* neither the number of component rows nor the length of the scale vector,
\* and coefficients, scale values and component rows combined are equally
\* many.
C8_ModesWithinBasis ==
  call.done =>
    \A i \in 1..2 : call.out[i].err # "TypeError" => ModesWithinBasis(i)

\* C8 amended: the same, for every regressor output length and every basis
\* that has at least as many component rows and scale values as the
\* regressor predicts coefficients.
C8_ModesWithinLargeEnoughBasis ==
  call.done =>
    \A i \in 1..2 :
      ( /\ call.out[i].err # "TypeError"
        /\ Len(recons[i].pca_model_components.rows) >= Len(PredictedCoefs)
        /\ Len(recons[i].sam_obj.std) >= Len(PredictedCoefs) )
      => ModesWithinBasis(i)

\* C8 witness: more modes requested than coefficients predicted, on a basis
\* with more rows than that
C8_Witness ==
  /\ call.done /\ call.num_modes = 3
  /\ Len(PredictedCoefs) = 2
  /\ Len(recons[1].pca_model_components.rows) = 3
  /\ call.out[1].err = "none" /\ call.out[1].num_modes = 2

\* ------------------------------------- config parsing alone (SpecConfig)
NoDisk == [xgb |-> BadXgbFile, pod |-> BadPodFile]

InitConfig ==
  /\ config \in Configs(MaxApps)
  /\ parsed = [done |-> FALSE, result |-> NoLists]
  /\ disk = NoDisk
  /\ recons = <<NoObject, NoObject>>
  /\ call = NoCall
  /\ PageOff

ParseConfig ==
  /\ ~parsed.done
  /\ parsed' = [done |-> TRUE, result |-> get_parameters_from_config(config)]
  /\ UNCHANGED <<disk, recons, call, config, pageVars>>

NextConfig == ParseConfig

SpecConfig == InitConfig /\ [][NextConfig]_vars

\* the uncertain parameters of a config in iteration order: of every app, or
\* of the apps of type "moose" only
RECURSIVE FlatBlocks(_, _)
FlatBlocks(blocks, k) ==
  IF k = 0 THEN <<>> ELSE FlatBlocks(blocks, k - 1) \o blocks[k]

RECURSIVE FlatApps(_, _, _)
FlatApps(apps, k, mooseOnly) ==
  IF k = 0 THEN <<>>
  ELSE FlatApps(apps, k - 1, mooseOnly)
         \o (IF mooseOnly /\ apps[k].type # "moose" THEN <<>>
             ELSE FlatBlocks(apps[k].uncertain_params,
                             Len(apps[k].uncertain_params)))

AllParams(cfg) == FlatApps(cfg, Len(cfg), FALSE)

MooseParams(cfg) == FlatApps(cfg, Len(cfg), TRUE)

AllUniform(params) ==
  \A k \in 1..Len(params) : params[k].distribution.name = "uniform"

\* the lists hold exactly the parameters params, in order
ListsMatch(r, params) ==
  /\ r.err = "none"
  /\ Len(r.name_list) = Len(params)
  /\ Len(r.min_val_list) = Len(params)
  /\ Len(r.max_val_list) = Len(params)
  /\ \A k \in 1..Len(params) :
       /\ r.name_list[k] = params[k].human_description
       /\ r.min_val_list[k].val = params[k].distribution.loc.val
       /\ r.max_val_list[k].val =
            params[k].distribution.loc.val + params[k].distribution.scale.val

\* C5: a config with a non-uniform uncertain parameter in a "moose" app makes
\* get_parameters_from_config fail with the unsupported-distribution error
\* (NotImplementedError) and return no list, however many uniform parameters
\* come before it.
C5_NonUniformRefused ==
  (parsed.done /\ ~AllUniform(MooseParams(config))) =>
    /\ parsed.result.err = "NotImplementedError"
    /\ parsed.result.name_list = <<>>
    /\ parsed.result.min_val_list = <<>>
    /\ parsed.result.max_val_list = <<>>

\* C5 witness: the refused parameter comes after uniform ones
C5_Witness ==
  /\ parsed.done
  /\ Len(MooseParams(config)) >= 3
  /\ AllUniform(SubSeq(MooseParams(config), 1, 2))
  /\ ~AllUniform(MooseParams(config))
  /\ parsed.result.err = "NotImplementedError"

\* C6 as stated: when every uncertain parameter of the config is uniform, the
\* three lists have one entry per uncertain parameter of the config, in
\* order: label, loc, loc + scale.
C6_OnePerUncertainParameter ==
  (parsed.done /\ AllUniform(AllParams(config))) =>
    ListsMatch(parsed.result, AllParams(config))

\* C6 amended: when every uncertain parameter of the config is uniform, the
\* three lists have one entry per uncertain parameter of the apps of type
\* "moose", in order: label, loc, loc + scale (as floats).
C6_OnePerMooseParameter ==
  (parsed.done /\ AllUniform(AllParams(config))) =>
    /\ ListsMatch(parsed.result, MooseParams(config))
    /\ \A k \in 1..Len(parsed.result.min_val_list) :
         /\ parsed.result.min_val_list[k].kind = "float"
         /\ parsed.result.max_val_list[k].kind = "float"

\* C6 witness: lists of several parameters from a config that also has an
\* app that is not read
C6_Witness ==
  /\ parsed.done /\ AllUniform(AllParams(config))
  /\ Len(parsed.result.name_list) >= 2
  /\ Len(AllParams(config)) > Len(MooseParams(config))

\* ---------------------------------------------------------- generate_data
TimeStart == 5
TimeStop == 61
TimeStep == 5

\* np.arange(start, stop, step) for a positive step
np_arange(start, stop, step) ==
  [i \in 1..((stop - start + step - 1) \div step) |-> start + (i - 1) * step]

\* faulty variant: the stop taken as the last time itself
time_list_stops_short == np_arange(TimeStart, TimeStop - 1, TimeStep)

time_list == np_arange(TimeStart, TimeStop, TimeStep)

\* np.c_[a, b] of two 1-d arrays: the rows (a[k], b[k])
np_c_(a, b) ==
  IF Len(a) # Len(b) THEN [err |-> "ValueError", val |-> <<>>]
  ELSE [err |-> "none", val |-> [k \in 1..Len(a) |-> <<a[k], b[k]>>]]

\* faulty variant: the call truncates the stored basis to the modes it used
self_after_reconstruct_truncates(self, nm) ==
  [self EXCEPT
     !.pca_model_components.rows = PySlice(@, nm),
     !.sam_obj.std = PySlice(@, nm)]

\* the Reconstructor after a call of reconstruct_with_xgboost: lines 126-141
\* assign no attribute of self
self_after_reconstruct(self, nm) == self

\* faulty variant: the smallest value of the field is collected
LoopBody_collects_min(self, locals, t, coeff_list, nm) ==
  LET out == reconstruct_with_xgboost(self, t, coeff_list, "None", nm)
  IN  IF out.err # "none" THEN [locals EXCEPT !.err = out.err]
      ELSE [locals EXCEPT
              !.data_out = out.field,
              !.out_temp = Append(@, -np_max([p \in 1..Len(out.field) |->
                                                 -out.field[p]]))]

\* the body of the loop of generate_data, lines 150-154, on its locals
LoopBody(self, locals, t, coeff_list, nm) ==
  LET out == reconstruct_with_xgboost(self, t, coeff_list, "None", nm)
  IN  IF out.err # "none" THEN [locals EXCEPT !.err = out.err]
      ELSE [locals EXCEPT
              !.data_out = out.field,
              !.out_temp = Append(@, np_max(out.field))]

\* ------------------------------------------------ application_page (Spec)
SliderMin == 2
SliderMax == 4

\* the configs of a page load: one app, at most one block
PageConfigs ==
  { c \in Configs(1) : Len(c[1].uncertain_params) <= 1 }

PageXgbFiles ==
  { b \in XgbFiles : b.left = Leaf("up", b.nout) /\ b.right = Leaf("down", b.nout) }

PagePodFiles ==
  { f \in PodFiles : f.mean = BasisMean("general")
                       /\ f.pca_std = BasisStd("general", Len(f.pca_std))
                       /\ f.pca_components.rows[1] = BasisRow("general", 1) }

\* the values a parameter slider can be left at: its ends and its default,
\* the middle
SliderValues(min_val, max_val) ==
  {min_val.val, max_val.val}
    \cup (IF (min_val.val + max_val.val) % 2 = 0
            THEN {(min_val.val + max_val.val) \div 2} ELSE {})

Init ==
  /\ config \in PageConfigs
  /\ disk \in [xgb : {GoodFile(b) : b \in PageXgbFiles} \cup {BadXgbFile},
               pod : {GoodFile(b) : b \in PagePodFiles} \cup {BadPodFile}]
  \* the regressor was trained on the time and the parameters of the config
  /\ disk.xgb.content.feat <= Len(get_parameters_from_config(config).name_list)
  /\ local_files \in {"present", "absent"}
  /\ parsed = [done |-> FALSE, result |-> NoLists]
  /\ recons = <<NoObject, NoObject>>
  /\ call = NoCall
  /\ pc = "artifacts"
  /\ num_modes = 0
  /\ coefs_to_test = <<>>
  /\ recon_model = NoObject
  /\ ti = 0
  /\ out_temp = <<>>
  /\ data_out = <<>>
  /\ tab_data = <<>>
  /\ field_vals = <<>>
  /\ rendered = {}
  /\ error = NoError
  /\ loads = [xgb |-> 0, pod |-> 0]
  /\ recon_calls = 0

Fail(where, exc) ==
  /\ pc' = "error"
  /\ error' = [where |-> where, exc |-> exc]

\* lines 258-265: the artifacts are there already
ArtifactsPresent ==
  /\ pc = "artifacts" /\ local_files = "present"
  /\ pc' = "sidebar"
  /\ UNCHANGED <<disk, reconVars, config, parsed, local_files, num_modes,
                 coefs_to_test, recon_model, ti, out_temp, data_out, tab_data,
                 field_vals, rendered, error, loads, recon_calls>>

\* lines 258-265: snapshot_download fetches them
ArtifactsDownloaded ==
  /\ pc = "artifacts" /\ local_files = "absent"
  /\ pc' = "sidebar"
  /\ local_files' = "present"
  /\ UNCHANGED <<disk, reconVars, config, parsed, num_modes,
                 coefs_to_test, recon_model, ti, out_temp, data_out, tab_data,
                 field_vals, rendered, error, loads, recon_calls>>

\* lines 258-265: snapshot_download raises
DownloadFails ==
  /\ pc = "artifacts" /\ local_files = "absent"
  /\ Fail("download", "HTTPError")
  /\ UNCHANGED <<disk, reconVars, config, parsed, local_files, num_modes,
                 coefs_to_test, recon_model, ti, out_temp, data_out, tab_data,
                 field_vals, rendered, loads, recon_calls>>

\* lines 267-283: the slider of the number of modes, then the config
Sidebar ==
  /\ pc = "sidebar"
  /\ \E nm \in SliderMin..SliderMax : num_modes' = nm
  /\ LET r == get_parameters_from_config(config)
     IN  IF r.err # "none"
           THEN /\ Fail("config", r.err)
                /\ UNCHANGED parsed
           ELSE /\ parsed' = [done |-> TRUE, result |-> r]
                /\ pc' = "sliders"
                /\ UNCHANGED error
  /\ UNCHANGED <<disk, reconVars, config, local_files,
                 coefs_to_test, recon_model, ti, out_temp, data_out, tab_data,
                 field_vals, rendered, loads, recon_calls>>

\* lines 285-298: one slider per parameter, its value appended
ParamSliders ==
  /\ pc = "sliders"
  /\ LET r == parsed.result
         n == Min(Len(r.name_list),
                  Min(Len(r.min_val_list), Len(r.max_val_list)))
         choices == [k \in 1..n |->
                       SliderValues(r.min_val_list[k], r.max_val_list[k])]
     IN  \E vals \in [1..n -> UNION {choices[k] : k \in 1..n}] :
           /\ \A k \in 1..n : vals[k] \in choices[k]
           /\ coefs_to_test' = vals
  /\ pc' = "load_xgb"
  /\ UNCHANGED <<disk, reconVars, config, parsed, local_files, num_modes,
                 recon_model, ti, out_temp, data_out, tab_data,
                 field_vals, rendered, error, loads, recon_calls>>

\* Reconstructor.__init__, line 63, called at line 145
LoadXgb ==
  /\ pc = "load_xgb"
  /\ loads' = [loads EXCEPT !.xgb = @ + 1]
  /\ LET r == load_xgb_regressor(NoObject, disk.xgb)
     IN  /\ recon_model' = r.self
         /\ IF r.err # "none" THEN Fail("load_xgb", r.err)
            ELSE pc' = "load_pod" /\ UNCHANGED error
  /\ UNCHANGED <<disk, reconVars, config, parsed, local_files, num_modes,
                 coefs_to_test, ti, out_temp, data_out, tab_data,
                 field_vals, rendered, recon_calls>>

\* Reconstructor.__init__, line 64; then lines 146-147
LoadPyssam ==
  /\ pc = "load_pod"
  /\ loads' = [loads EXCEPT !.pod = @ + 1]
  /\ \E dummy \in DummyData :
       LET r == load_pyssam(recon_model, disk.pod, dummy)
       IN  /\ recon_model' = r.self
           /\ IF r.err # "none"
                THEN Fail("load_pod", r.err) /\ UNCHANGED ti
                ELSE pc' = "loop" /\ ti' = 1 /\ UNCHANGED error
  /\ UNCHANGED <<disk, reconVars, config, parsed, local_files, num_modes,
                 coefs_to_test, out_temp, data_out, tab_data,
                 field_vals, rendered, recon_calls>>

\* one iteration of the loop of generate_data, lines 148-154
LoopIteration ==
  /\ pc = "loop" /\ ti <= Len(time_list)
  /\ recon_calls' = recon_calls + 1
  /\ recon_model' = self_after_reconstruct(recon_model, num_modes)
  /\ LET r == LoopBody(recon_model,
                       [err |-> "none", out_temp |-> out_temp,
                        data_out |-> data_out],
                       time_list[ti], coefs_to_test, num_modes)
     IN  IF r.err # "none"
           THEN /\ Fail("reconstruct", r.err)
                /\ UNCHANGED <<ti, out_temp, data_out>>
           ELSE /\ out_temp' = r.out_temp
                /\ data_out' = r.data_out
                /\ ti' = ti + 1
                /\ UNCHANGED <<pc, error>>
  /\ UNCHANGED <<disk, reconVars, config, parsed, local_files, num_modes,
                 coefs_to_test, tab_data, field_vals, rendered, loads>>

\* line 155 and the assignment of line 300
ReturnData ==
  /\ pc = "loop" /\ ti > Len(time_list)
  /\ LET r == np_c_(time_list, out_temp)
     IN  IF r.err # "none"
           THEN Fail("return", r.err) /\ UNCHANGED <<tab_data, field_vals>>
           ELSE /\ tab_data' = r.val
                /\ field_vals' = data_out
                /\ pc' = "plot"
                /\ UNCHANGED error
  /\ UNCHANGED <<disk, reconVars, config, parsed, local_files, num_modes,
                 coefs_to_test, recon_model, ti, out_temp, data_out,
                 rendered, loads, recon_calls>>

\* lines 307-337: the title, the text and the time-series plot
PlotTimeseries ==
  /\ pc = "plot"
  /\ rendered' = rendered \cup {"plot"}
  /\ pc' = "field"
  /\ UNCHANGED <<disk, reconVars, config, parsed, local_files, num_modes,
                 coefs_to_test, recon_model, ti, out_temp, data_out, tab_data,
                 field_vals, error, loads, recon_calls>>

\* lines 339-345: write_field renders the field
WriteField ==
  /\ pc = "field"
  /\ rendered' = rendered \cup {"field"}
  /\ pc' = "done"
  /\ UNCHANGED <<disk, reconVars, config, parsed, local_files, num_modes,
                 coefs_to_test, recon_model, ti, out_temp, data_out, tab_data,
                 field_vals, error, loads, recon_calls>>

\* lines 339-345: the template mesh or the rendered scene cannot be read
WriteFieldFails ==
  /\ pc = "field"
  /\ Fail("write_field", "FileNotFoundError")
  /\ UNCHANGED <<disk, reconVars, config, parsed, local_files, num_modes,
                 coefs_to_test, recon_model, ti, out_temp, data_out, tab_data,
                 field_vals, rendered, loads, recon_calls>>

Next ==
  \/ ArtifactsPresent
  \/ ArtifactsDownloaded
  \/ DownloadFails
  \/ Sidebar
  \/ ParamSliders
  \/ LoadXgb
  \/ LoadPyssam
  \/ LoopIteration
  \/ ReturnData
  \/ PlotTimeseries
  \/ WriteField
  \/ WriteFieldFails

Spec == Init /\ [][Next]_vars

\* --------------------------------------------- claims on the page load
\* generate_data has returned to application_page
DataReturned ==
  pc \in {"plot", "field", "done"} \/ error.where = "write_field"

\* the unreduced reconstruction for time t with the parameters and the
\* number of modes of this page load
FullField(t) ==
  reconstruct_with_xgboost(recon_model, t, coefs_to_test, "None", num_modes)

\* C3: the time series generate_data returns has exactly 12 (time, value)
\* pairs, the times are 5, 10, ..., 60 in this order, and each value is the
\* maximum of the full field reconstructed for its time with the same
\* parameters and num_modes.
C3_TimeSeries ==
  DataReturned =>
    /\ Len(tab_data) = 12
    /\ \A k \in 1..Len(tab_data) :
         /\ tab_data[k][1] = 5 * k
         /\ FullField(tab_data[k][1]).err = "none"
         /\ tab_data[k][2] = np_max(FullField(tab_data[k][1]).field)

\* C3 witness: a returned series whose values differ over time, of fields
\* whose points differ
C3_Witness ==
  /\ DataReturned
  /\ Len(tab_data) = 12
  /\ tab_data[11][2] # tab_data[12][2]
  /\ \E p, q \in 1..Len(field_vals) : field_vals[p] < field_vals[q]

\* C4: the field generate_data returns beside the series, the one handed to
\* write_field, is the unreduced reconstruction for the last time, t = 60,
\* and its maximum is the value of the last pair of the series.
C4_FinalSnapshot ==
  DataReturned =>
    /\ FullField(60).err = "none"
    /\ field_vals = FullField(60).field
    /\ Len(tab_data) >= 1
    /\ tab_data[Len(tab_data)] = <<60, np_max(field_vals)>>

\* C4 witness: the field is rendered and differs from that of the time
\* before
C4_Witness ==
  /\ pc = "done" /\ "field" \in rendered
  /\ field_vals = FullField(60).field
  /\ field_vals # FullField(55).field

\* C9: in a page load each artifact is loaded at most once, both exactly once
\* before the first reconstruction, and after any number of calls of
\* reconstruct_with_xgboost the regressor, the mean, the components and the
\* scale of the Reconstructor are those of the files loaded.
C9_ArtifactsReadOnly ==
  /\ loads.xgb <= 1 /\ loads.pod <= 1
  /\ (recon_calls >= 1 \/ pc = "loop" \/ DataReturned) =>
       /\ loads = [xgb |-> 1, pod |-> 1]
       /\ recon_model.xgb_model = disk.xgb.content
       /\ recon_model.mean_dataset_columnvector = disk.pod.content.mean
       /\ recon_model.pca_model_components = disk.pod.content.pca_components
       /\ recon_model.sam_obj.std = disk.pod.content.pca_std

\* C9 witness: all twelve reconstructions done with fewer modes than the
\* basis holds
C9_Witness ==
  /\ pc = "done" /\ recon_calls = 12
  /\ FullField(60).num_modes < Len(recon_model.pca_model_components.rows)

\* C10: when the load of an artifact or a reconstruction fails, generate_data
\* returns neither series nor field and the page renders neither plot nor
\* field; whenever it does return, every one of the 12 reconstructions
\* succeeded and the series and the field are complete; nothing is rendered
\* unless it returned.
C10_NoPartialResult ==
  /\ error.where \in {"load_xgb", "load_pod", "reconstruct"} =>
       /\ pc = "error"
       /\ tab_data = <<>> /\ field_vals = <<>>
       /\ rendered = {}
  /\ (~disk.xgb.ok \/ ~disk.pod.ok) =>
       /\ pc # "loop" /\ ~DataReturned
       /\ recon_calls = 0 /\ rendered = {}
  /\ DataReturned =>
       /\ Len(tab_data) = 12
       /\ Len(field_vals) = NumPoints
       /\ \A k \in 1..Len(time_list) : FullField(time_list[k]).err = "none"
  /\ rendered # {} => DataReturned

\* C10 witness: a reconstruction fails after both artifacts were loaded
C10_Witness ==
  /\ pc = "error" /\ error.where = "reconstruct"
  /\ loads = [xgb |-> 1, pod |-> 1]
  /\ rendered = {}

====
